---- MODULE Spec2Model ----
(***************************************************************************)
(* Model of src/reps_download.py: the MinSaludDownloader class.            *)
(*                                                                         *)
(* One thread of control (pc) runs a batch (download_all_departamentos or  *)
(* download_specific_departamentos) or a single direct call of             *)
(* wait_for_download_and_rename.  The browser writes files into the        *)
(* download directory on its own schedule; those are the environment       *)
(* actions Browser* and StrayFile.                                         *)
(*                                                                         *)
(* File and region names are sequences of one-character strings so that    *)
(* str.lower, str.startswith, str.endswith and os.path.splitext are        *)
(* computed as Python computes them.                                       *)
(*                                                                         *)
(* Time: elapsed is time.time() - start_time in whole seconds as read by   *)
(* the loop condition.  time.sleep(1) is the action WatchSleep; what the   *)
(* environment does while pc = "sleep" happens during that second.         *)
(*                                                                         *)
(* The directory maps each file name to a tag for its content: 0 for a     *)
(* file no export of this run wrote, k for the file of the k-th attempt's  *)
(* export.  Names are compared exactly, as on a case-sensitive file        *)
(* system.                                                                 *)
(***************************************************************************)
EXTENDS Integers, Sequences, FiniteSets, TLC

\* ------------------------------------------------------------------ bounds

MaxRegions == 3
MaxTimeout == 2
MaxStray == 1

\* ------------------------------------------------------- program constants

DefaultTimeout == 30
PollInterval == 1
PacingSeconds == 3

\* ------------------------------------------------------------------ strings

UpperLetters ==
  <<"A","B","C","D","E","F","G","H","I","J","K","L","M",
    "N","O","P","Q","R","S","T","U","V","W","X","Y","Z">>

LowerLetters ==
  <<"a","b","c","d","e","f","g","h","i","j","k","l","m",
    "n","o","p","q","r","s","t","u","v","w","x","y","z">>

LowerChar(c) ==
  IF \E k \in 1..26 : UpperLetters[k] = c
  THEN LowerLetters[CHOOSE k \in 1..26 : UpperLetters[k] = c]
  ELSE c

lower(s) == [k \in 1..Len(s) |-> LowerChar(s[k])]

startswith(s, p) == Len(s) >= Len(p) /\ SubSeq(s, 1, Len(p)) = p

endswith(s, x) == Len(s) >= Len(x) /\ SubSeq(s, Len(s) - Len(x) + 1, Len(s)) = x

\* os.path.splitext: the extension starts at the last dot, unless only dots
\* precede it (a leading-dot name has no extension).  <<root, ext>>.
splitext(s) ==
  LET dots == {k \in 1..Len(s) : s[k] = "."}
      last == CHOOSE k \in dots : \A j \in dots : j <= k
  IN  IF dots = {} THEN <<s, <<>>>>
      ELSE IF \E j \in 1..(last - 1) : s[j] # "."
           THEN <<SubSeq(s, 1, last - 1), SubSeq(s, last, Len(s))>>
           ELSE <<s, <<>>>>

DotXls == <<".","x","l","s">>
DotXlsx == <<".","x","l","s","x">>
DotCrdownload == <<".","c","r","d","o","w","n","l","o","a","d">>
Tilde == <<"~">>

\* ------------------------------------------------------- names in the model

RegionName(k) == <<UpperLetters[k]>>

ExportXls == <<"e",".","x","l","s">>
ExportXLSX == <<"e",".","X","L","S","X">>
PartialName == ExportXls \o DotCrdownload
TempName == Tilde \o ExportXls
NotesTxt == <<"n",".","t","x","t">>
RegionXls(k) == RegionName(k) \o DotXls

\* names a finished browser download can carry
DownloadNames == {ExportXls, ExportXLSX, RegionXls(1)}
\* the name the site gives its exports in a batch (one name for every region)
BatchDownloadNames == {ExportXls}
\* files other programs leave in the directory
StrayNames == {TempName, NotesTxt}
\* names the caller of download_specific_departamentos may type
RequestNames == {<<"a">>, <<"B">>, <<"z">>}

None == <<>>
EmptyDir == [f \in {} |-> 0]

\* ---------------------------------------------------------------- variables

VARIABLES
  pc,                   \* position of the thread of control
  mode,                 \* "none" | "all" | "specific" | "watch"
  driver,               \* self.driver: "None" | "open" | "closed"
  quits,                \* number of driver.quit() calls
  departamentos,        \* the list the loop iterates (names)
  i,                    \* 1-based index of the region being attempted
  successful_downloads,
  failed_downloads,
  dir,                  \* the download directory: name -> content
  pending,              \* exports triggered whose file has not arrived
  departamento_nombre,  \* argument of wait_for_download_and_rename
  timeout,              \* argument of wait_for_download_and_rename
  archivos_antes,       \* the snapshot S0
  elapsed,              \* time.time() - start_time, seconds
  nuevo_archivo,        \* the file the poll chose, or None
  result,               \* the outcome last reported: of an attempt, of a
                        \* watch, or the reason a batch stopped early
  envDir,               \* the directory as it would be without the watcher
  fsops,                \* os.remove / os.rename calls of this watch cycle
  arrived,              \* names that appeared while the watch was running
  events,               \* attempts and pacing sleeps of the batch, in order
  departamentos_nombres,\* names given to download_specific_departamentos
  todos_departamentos,  \* the catalog get_departamentos_list returned
  strayLeft             \* stray files still allowed to appear

vars == <<pc, mode, driver, quits, departamentos, i, successful_downloads,
          failed_downloads, dir, pending, departamento_nombre, timeout,
          archivos_antes, elapsed, nuevo_archivo, result, envDir, fsops,
          arrived, events, departamentos_nombres, todos_departamentos,
          strayLeft>>

batchVars == <<mode, driver, quits, departamentos, i, successful_downloads,
               failed_downloads, events, departamentos_nombres,
               todos_departamentos>>
watchVars == <<departamento_nombre, timeout, archivos_antes, elapsed,
               nuevo_archivo, fsops>>

\* --------------------------------------------------------------------- Init

InitCommon ==
  /\ pc = "idle"
  /\ driver = "None"
  /\ quits = 0
  /\ departamentos = <<>>
  /\ i = 0
  /\ successful_downloads = 0
  /\ failed_downloads = 0
  /\ dir \in {EmptyDir, [f \in {RegionXls(1)} |-> 0]}
  /\ departamento_nombre = None
  /\ timeout = 0
  /\ archivos_antes = {}
  /\ elapsed = 0
  /\ nuevo_archivo = None
  /\ result = "none"
  /\ envDir = dir
  /\ fsops = <<>>
  /\ arrived = {}
  /\ events = <<>>
  /\ departamentos_nombres = {}
  /\ todos_departamentos = <<>>

\* main(): a downloader is constructed and one batch is about to be chosen.
Init ==
  /\ InitCommon
  /\ mode = "none"
  /\ pending = {}
  /\ strayLeft = 0

\* wait_for_download_and_rename called directly, one export under way.
InitWatch ==
  /\ InitCommon
  /\ mode = "watch"
  /\ pending = {1}
  /\ strayLeft = MaxStray

\* ------------------------------------------------- the watcher's functions

\* Qualifies without the temporary-file test of line 180
QualifiesNoTilde(archivo) ==
  /\ (endswith(lower(archivo), DotXls) \/ endswith(lower(archivo), DotXlsx))
  /\ ~endswith(archivo, DotCrdownload)

\* lines 179-181: the test a new file must pass
Qualifies(archivo) ==
  /\ (endswith(lower(archivo), DotXls) \/ endswith(lower(archivo), DotXlsx))
  /\ ~startswith(archivo, Tilde)
  /\ ~endswith(archivo, DotCrdownload)

\* NewFiles without the subtraction of the snapshot
NewFilesNoSnapshot(archivos_actuales, antes) == archivos_actuales

\* line 175: archivos_nuevos = archivos_actuales - archivos_antes
NewFiles(archivos_actuales, antes) == archivos_actuales \ antes

\* TargetName with the fixed extension of line 263 instead of the file's own
TargetNameXls(nombre, archivo) == nombre \o DotXls

\* lines 193-194: nombre_nuevo = f"{departamento_nombre}{extension}"
TargetName(nombre, archivo) == nombre \o splitext(archivo)[2]

\* the directory after os.remove(t)
Remove(d, t) == [g \in DOMAIN d \ {t} |-> d[g]]

\* the directory after os.rename(f, t)
Rename(d, f, t) ==
  [g \in (DOMAIN d \ {f}) \cup {t} |-> IF g = t THEN d[f] ELSE d[g]]

\* the directory after a file f with content c is written
Put(d, f, c) == [g \in DOMAIN d \cup {f} |-> IF g = f THEN c ELSE d[g]]

\* what the operating system may refuse: nothing, os.remove, os.rename
OsErrors == {"none", "remove", "rename"}

\* lines 190-210: the rename block, for the chosen file f
RenameOutcome(d, nombre, f, oserr) ==
  LET t == TargetName(nombre, f)
      existe == t \in DOMAIN d
      removeRaises == existe /\ oserr = "remove"
      removed == existe /\ ~removeRaises
      d1 == IF removed THEN Remove(d, t) ELSE d
      ops1 == IF removed THEN <<[op |-> "remove", name |-> t, to |-> None]>>
              ELSE <<>>
      renameRaises == f \notin DOMAIN d1 \/ oserr = "rename"
      ok == ~removeRaises /\ ~renameRaises
  IN  [dir |-> IF ok THEN Rename(d1, f, t) ELSE d1,
       ops |-> IF ok THEN Append(ops1, [op |-> "rename", name |-> f, to |-> t])
               ELSE ops1,
       ok  |-> ok]

\* ------------------------------------------------- return of one attempt

\* AttemptReturn where a failed attempt leaves the loop
AttemptReturnAbort(ok) ==
  CASE mode = "all" ->
         /\ successful_downloads' = successful_downloads + (IF ok THEN 1 ELSE 0)
         /\ failed_downloads' = failed_downloads + (IF ok THEN 0 ELSE 1)
         /\ pc' = IF ok /\ i < Len(departamentos) THEN "pace" ELSE "finally"
    [] mode = "specific" ->
         /\ pc' = IF ok THEN "pace" ELSE "finally"
         /\ UNCHANGED <<successful_downloads, failed_downloads>>
    [] OTHER ->
         /\ pc' = "done"
         /\ UNCHANGED <<successful_downloads, failed_downloads>>

\* lines 366-374 (all), 419-420 (specific), or the direct caller
AttemptReturn(ok) ==
  CASE mode = "all" ->
         /\ successful_downloads' = successful_downloads + (IF ok THEN 1 ELSE 0)
         /\ failed_downloads' = failed_downloads + (IF ok THEN 0 ELSE 1)
         /\ pc' = IF i < Len(departamentos) THEN "pace" ELSE "finally"
    [] mode = "specific" ->
         /\ pc' = "pace"
         /\ UNCHANGED <<successful_downloads, failed_downloads>>
    [] OTHER ->
         /\ pc' = "done"
         /\ UNCHANGED <<successful_downloads, failed_downloads>>

Finish(res) ==
  /\ result' = res
  /\ AttemptReturn(res = "success")

\* ------------------------------------------------------------ environment

Watching == pc \in {"poll", "sleep"}

Appear(f, c) ==
  /\ dir' = Put(dir, f, c)
  /\ envDir' = Put(envDir, f, c)
  /\ arrived' = IF Watching THEN arrived \cup {f} ELSE arrived

\* the browser finishes the download of export k under the name f
BrowserDownload(k, f) ==
  /\ pc # "done"
  /\ k \in pending
  /\ f \in DownloadNames \ DOMAIN dir
  /\ Appear(f, k)
  /\ pending' = pending \ {k}
  /\ UNCHANGED <<pc, batchVars, watchVars, result, strayLeft>>

\* the browser starts writing export k into an in-progress file
BrowserPartial(k) ==
  /\ pc # "done"
  /\ k \in pending
  /\ PartialName \notin DOMAIN dir
  /\ Appear(PartialName, k)
  /\ pending' = pending \ {k}
  /\ UNCHANGED <<pc, batchVars, watchVars, result, strayLeft>>

\* the browser renames the in-progress file to its final name
BrowserComplete ==
  /\ pc # "done"
  /\ PartialName \in DOMAIN dir
  /\ ExportXls \notin DOMAIN dir
  /\ dir' = Rename(dir, PartialName, ExportXls)
  /\ envDir' = IF PartialName \in DOMAIN envDir
               THEN Rename(envDir, PartialName, ExportXls) ELSE envDir
  /\ arrived' = IF Watching THEN arrived \cup {ExportXls} ELSE arrived
  /\ UNCHANGED <<pc, batchVars, watchVars, result, pending, strayLeft>>

\* another program leaves a file in the directory
StrayFile(f) ==
  /\ pc # "done"
  /\ strayLeft > 0
  /\ f \in StrayNames \ DOMAIN dir
  /\ Appear(f, 0)
  /\ strayLeft' = strayLeft - 1
  /\ UNCHANGED <<pc, batchVars, watchVars, result, pending>>

\* ------------------------------------------ wait_for_download_and_rename

\* a direct call wait_for_download_and_rename(nombre, t)
CallWatch(nombre, t) ==
  /\ pc = "idle"
  /\ mode = "watch"
  /\ departamento_nombre' = nombre
  /\ timeout' = t
  /\ pc' = "snapshot"
  /\ UNCHANGED <<batchVars, dir, pending, archivos_antes, elapsed,
                 nuevo_archivo, result, envDir, fsops, arrived, strayLeft>>

\* lines 166-172: the snapshot, start_time, the first loop test
WatchSnapshot ==
  /\ pc = "snapshot"
  /\ archivos_antes' = DOMAIN dir
  /\ elapsed' = 0
  /\ nuevo_archivo' = None
  /\ fsops' = <<>>
  /\ arrived' = {}
  /\ envDir' = dir
  /\ IF 0 < timeout
     THEN /\ pc' = "poll"
          /\ UNCHANGED <<result, successful_downloads, failed_downloads>>
     ELSE Finish("timeout")
  /\ UNCHANGED <<mode, driver, quits, departamentos, i, events,
                 departamentos_nombres,
                 todos_departamentos, dir, pending, departamento_nombre,
                 timeout, strayLeft>>

\* lines 173-186: a poll that finds no qualifying new file
WatchPollNothing ==
  /\ pc = "poll"
  /\ {f \in NewFiles(DOMAIN dir, archivos_antes) : Qualifies(f)} = {}
  /\ pc' = "sleep"
  /\ UNCHANGED <<batchVars, watchVars, dir, pending, result, envDir, arrived,
                 strayLeft>>

\* lines 173-210: a poll that finds f (set iteration order is arbitrary),
\* leaves the loop and runs the rename block
WatchPollFound(f, oserr) ==
  /\ pc = "poll"
  /\ f \in NewFiles(DOMAIN dir, archivos_antes)
  /\ Qualifies(f)
  /\ LET out == RenameOutcome(dir, departamento_nombre, f, oserr)
     IN  /\ nuevo_archivo' = f
         /\ dir' = out.dir
         /\ fsops' = out.ops
         /\ Finish(IF out.ok THEN "success" ELSE "rename-error")
  /\ UNCHANGED <<mode, driver, quits, departamentos, i, events,
                 departamentos_nombres,
                 todos_departamentos, pending, departamento_nombre, timeout,
                 archivos_antes, elapsed, envDir, arrived, strayLeft>>

\* WatchSleep where the elapsed time read by the loop test never advances
WatchSleepStuck ==
  /\ pc = "sleep"
  /\ pc' = "poll"
  /\ UNCHANGED <<batchVars, watchVars, dir, pending, result, envDir, arrived,
                 strayLeft>>

\* line 188 and the loop test of line 172; lines 211-213 when it fails
WatchSleep ==
  /\ pc = "sleep"
  /\ elapsed' = elapsed + PollInterval
  /\ IF elapsed' < timeout
     THEN /\ pc' = "poll"
          /\ UNCHANGED <<result, successful_downloads, failed_downloads>>
     ELSE Finish("timeout")
  /\ UNCHANGED <<mode, driver, quits, departamentos, i, events,
                 departamentos_nombres,
                 todos_departamentos, dir, pending, departamento_nombre,
                 timeout, archivos_antes, nuevo_archivo, envDir, fsops,
                 arrived, strayLeft>>

\* --------------------------------------------------------------- the batch

\* main(), option 1: download_all_departamentos()
StartAll ==
  /\ pc = "idle"
  /\ mode = "none"
  /\ mode' = "all"
  /\ pc' = "setup"
  /\ UNCHANGED <<driver, quits, departamentos, i, successful_downloads,
                 failed_downloads, events, departamentos_nombres,
                 todos_departamentos, dir,
                 pending, watchVars, result, envDir, arrived, strayLeft>>

\* main(), option 2: download_specific_departamentos(nombres)
StartSpecific(nombres) ==
  /\ pc = "idle"
  /\ mode = "none"
  /\ mode' = "specific"
  /\ departamentos_nombres' = nombres
  /\ pc' = "setup"
  /\ UNCHANGED <<driver, quits, departamentos, i, successful_downloads,
                 failed_downloads, events, todos_departamentos, dir, pending,
                 watchVars, result, envDir, arrived, strayLeft>>

\* lines 345 / 393: setup_driver() returns, or raises into the except clause
SetupDriver(ok) ==
  /\ pc = "setup"
  /\ driver' = IF ok THEN "open" ELSE driver
  /\ pc' = IF ok THEN "navigate" ELSE "finally"
  /\ result' = IF ok THEN result ELSE "setup-error"
  /\ UNCHANGED <<mode, quits, departamentos, i, successful_downloads,
                 failed_downloads, events, departamentos_nombres,
                 todos_departamentos, dir, pending, watchVars, envDir,
                 arrived, strayLeft>>

\* lines 348-350 / 396-398: navigate_to_servicios_page()
Navigate(ok) ==
  /\ pc = "navigate"
  /\ pc' = IF ok THEN "catalog" ELSE "finally"
  /\ result' = IF ok THEN result ELSE "navigation-failed"
  /\ UNCHANGED <<batchVars, dir, pending, watchVars, envDir, arrived,
                 strayLeft>>

\* FilterDepartamentos comparing the names as typed, without lower()
FilterCaseSensitive(todos, nombres) ==
  SelectSeq(todos, LAMBDA d : d \in nombres)

\* lines 407-410: the catalog entries whose name matches, ignoring case
FilterDepartamentos(todos, nombres) ==
  SelectSeq(todos, LAMBDA d : lower(d) \in {lower(x) : x \in nombres})

\* lines 353-361 / 401-416: the catalog of n regions is read (n = 0: the
\* select is missing or empty), filtered in the specific mode
GetDepartamentos(n) ==
  /\ pc = "catalog"
  /\ LET todos == [k \in 1..n |-> RegionName(k)]
         lista == IF mode = "all" \/ todos = <<>> THEN todos
                  ELSE FilterDepartamentos(todos, departamentos_nombres)
     IN  /\ todos_departamentos' = todos
         /\ IF lista = <<>>
            THEN /\ pc' = "finally"
                 /\ result' = IF todos = <<>> THEN "no-departamentos"
                               ELSE "no-match"
                 /\ UNCHANGED <<departamentos, i>>
            ELSE /\ departamentos' = lista
                 /\ i' = 1
                 /\ pc' = "select"
                 /\ UNCHANGED result
  /\ UNCHANGED <<mode, driver, quits, successful_downloads, failed_downloads,
                 events, departamentos_nombres, dir, pending, watchVars,
                 envDir, arrived, strayLeft>>

\* the waits of download_departamento_data that can time out
Stages == {"select", "search", "grid", "export"}

\* lines 286-319, 329-334: a stage times out, the attempt returns False
TriggerFails(stage) ==
  /\ pc = "select"
  /\ stage \in Stages
  /\ events' = Append(events, <<"attempt", i>>)
  /\ Finish("trigger-fail")
  /\ UNCHANGED <<mode, driver, quits, departamentos, i,
                 departamentos_nombres,
                 todos_departamentos, dir, pending, watchVars, envDir,
                 arrived, strayLeft>>

\* lines 286-322: the export button is clicked, then the watcher is called
TriggerExport ==
  /\ pc = "select"
  /\ events' = Append(events, <<"attempt", i>>)
  /\ pending' = pending \cup {i}
  /\ departamento_nombre' = departamentos[i]
  /\ timeout' = DefaultTimeout
  /\ pc' = "snapshot"
  /\ UNCHANGED <<mode, driver, quits, departamentos, i, successful_downloads,
                 failed_downloads, departamentos_nombres,
                 todos_departamentos, dir, archivos_antes,
                 elapsed, nuevo_archivo, result, envDir, fsops, arrived,
                 strayLeft>>

\* lines 372-374 / 420: time.sleep(3), then the next iteration or the end
Pace ==
  /\ pc = "pace"
  /\ events' = Append(events, <<"sleep", PacingSeconds>>)
  /\ IF i < Len(departamentos)
     THEN i' = i + 1 /\ pc' = "select"
     ELSE i' = i /\ pc' = "finally"
  /\ UNCHANGED <<mode, driver, quits, departamentos, successful_downloads,
                 failed_downloads, departamentos_nombres,
                 todos_departamentos, dir, pending,
                 watchVars, result, envDir, arrived, strayLeft>>

\* Finally without the quit: the session is left open
FinallyLeak ==
  /\ pc = "finally"
  /\ pc' = "done"
  /\ UNCHANGED <<mode, driver, quits, departamentos, i, successful_downloads,
                 failed_downloads, events, departamentos_nombres,
                 todos_departamentos, dir,
                 pending, watchVars, result, envDir, arrived, strayLeft>>

\* lines 380-382 / 424-426: finally: if self.driver: self.driver.quit()
Finally ==
  /\ pc = "finally"
  /\ IF driver # "None"
     THEN driver' = "closed" /\ quits' = quits + 1
     ELSE UNCHANGED <<driver, quits>>
  /\ pc' = "done"
  /\ UNCHANGED <<mode, departamentos, i, successful_downloads,
                 failed_downloads, events, departamentos_nombres,
                 todos_departamentos, dir,
                 pending, watchVars, result, envDir, arrived, strayLeft>>

\* ------------------------------------------------------------ specifications

Watcher ==
  \/ WatchSnapshot
  \/ WatchPollNothing
  \/ \E f \in DOMAIN dir, oserr \in OsErrors : WatchPollFound(f, oserr)
  \/ WatchSleep

\* the steps of the program's one thread
Program ==
  \/ StartAll
  \/ \E nombres \in SUBSET RequestNames : StartSpecific(nombres)
  \/ \E ok \in BOOLEAN : SetupDriver(ok)
  \/ \E ok \in BOOLEAN : Navigate(ok)
  \/ \E n \in 0..MaxRegions : GetDepartamentos(n)
  \/ \E stage \in Stages : TriggerFails(stage)
  \/ TriggerExport
  \/ Pace
  \/ Finally
  \/ Watcher

Next ==
  \/ Program
  \/ \E k \in pending, f \in BatchDownloadNames : BrowserDownload(k, f)

Spec == Init /\ [][Next]_vars

\* the interpreter keeps running the thread: a step of the program that is
\* possible is eventually taken; nothing is assumed of the browser
SpecLive == Init /\ [][Next]_vars /\ WF_vars(Program)

NextWatch ==
  \/ \E k \in 1..MaxRegions, t \in 1..MaxTimeout : CallWatch(RegionName(k), t)
  \/ Watcher
  \/ \E k \in pending, f \in DownloadNames : BrowserDownload(k, f)
  \/ \E k \in pending : BrowserPartial(k)
  \/ BrowserComplete
  \/ \E f \in StrayNames : StrayFile(f)

SpecWatch == InitWatch /\ [][NextWatch]_vars

\* ------------------------------------------------------------------ claims

WatchReturned == mode = "watch" /\ pc = "done"

\* the glossary's qualifying file: accepted extension whatever the letter
\* case, no temporary-file prefix, no in-progress suffix
IsQualifying(f) ==
  /\ \E x \in {DotXls, DotXlsx} : endswith(lower(f), x)
  /\ f[1] # "~"
  /\ ~endswith(f, DotCrdownload)

IsTransient(f) == f[1] = "~" \/ endswith(f, DotCrdownload)

\* C1: once the watcher holds its snapshot S0, no qualifying file written by
\* the current region's export is in S0 (S0 predates the export trigger, so
\* the file shows up in the delta however fast the download was).
C1_SnapshotPredatesExport ==
  (mode \in {"all", "specific"} /\ Watching) =>
    \A f \in DOMAIN dir : (dir[f] = i /\ IsQualifying(f)) => f \notin archivos_antes

\* C2: a qualifying file that appears at a time t < timeout after the watch
\* started is seen by a poll at or after t: the watch does not run into the
\* timeout failure.
C2_ArrivalBeforeTimeoutIsSeen ==
  (WatchReturned /\ \E f \in arrived : IsQualifying(f)) => result # "timeout"

\* C3: when no qualifying new file appeared during the watch, the watcher
\* returns the timeout failure and has not touched the directory: no remove,
\* no rename, the directory is what the environment alone made of it.
C3_TimeoutMutatesNothing ==
  (WatchReturned /\ \A f \in arrived : ~IsQualifying(f)) =>
    /\ result = "timeout"
    /\ fsops = <<>>
    /\ dir = envDir

C3_Witness ==
  /\ WatchReturned
  /\ result = "timeout"
  /\ arrived = {PartialName, NotesTxt}
  /\ dir = envDir

\* C4: on success with the detected file F of extension E, the directory
\* holds N+E with F's content (an older N+E is replaced) and no file named F.
C4_RenamedToTarget ==
  (WatchReturned /\ result = "success") =>
    LET F == nuevo_archivo
        NE == departamento_nombre \o splitext(F)[2]
    IN  /\ NE \in DOMAIN dir
        /\ dir[NE] = envDir[F]
        /\ F \notin DOMAIN dir
        /\ \A g \in DOMAIN dir \ {NE} : g \in DOMAIN envDir /\ dir[g] = envDir[g]

C4_Witness ==
  /\ WatchReturned
  /\ result = "success"
  /\ departamento_nombre = RegionName(1)
  /\ nuevo_archivo = ExportXls
  /\ RegionXls(1) \in archivos_antes
  /\ dir[RegionXls(1)] = 1

\* C5: a watch cycle removes at most one file, and only a file that was there
\* under the target name before the watch; it renames only the new file it
\* identified; the new file itself is never the one removed.
C5_OnlyStaleTargetRemoved ==
  /\ Cardinality({k \in 1..Len(fsops) : fsops[k].op = "remove"}) <= 1
  /\ \A k \in 1..Len(fsops) :
       /\ fsops[k].op = "remove" =>
            /\ fsops[k].name \in archivos_antes
            /\ fsops[k].name # nuevo_archivo
       /\ fsops[k].op = "rename" => fsops[k].name = nuevo_archivo

\* C6: after a successful capture for region name N the directory holds one
\* artifact for N, counting every accepted extension in any letter case.
IsArtifactOf(g, nombre) ==
  /\ splitext(g)[1] = nombre
  /\ lower(splitext(g)[2]) \in {DotXls, DotXlsx}

C6_OneArtifactPerRegion ==
  (WatchReturned /\ result = "success") =>
    Cardinality({g \in DOMAIN dir : IsArtifactOf(g, departamento_nombre)}) <= 1

\* C7: the chosen file never starts with '~' nor ends with '.crdownload';
\* when such files are the only ones that appeared, the watch times out.
C7_TransientNeverChosen ==
  /\ nuevo_archivo # None => ~IsTransient(nuevo_archivo)
  /\ (WatchReturned /\ arrived # {} /\ \A f \in arrived : IsTransient(f)) =>
       (result = "timeout" /\ nuevo_archivo = None)

C7_Witness ==
  /\ WatchReturned
  /\ arrived = {TempName}
  /\ DOMAIN dir \ archivos_antes = {TempName}
  /\ result = "timeout"

\* C8: when the loop of a batch has ended, every region of the list has been
\* attempted once, in list order, and in the full-catalog batch
\* successes + failures is the length of the list; while the loop runs the
\* two counters add up to the number of attempts that have returned.
Attempts == SelectSeq(events, LAMBDA e : e[1] = "attempt")

LoopEnded == pc \in {"finally", "done"} /\ departamentos # <<>>

C8_EveryRegionAttemptedOnce ==
  /\ LoopEnded =>
       /\ Attempts = [k \in 1..Len(departamentos) |-> <<"attempt", k>>]
       /\ mode = "all" =>
            successful_downloads + failed_downloads = Len(departamentos)
  /\ (mode = "all" /\ pc = "pace") => successful_downloads + failed_downloads = i

C8_Witness ==
  /\ pc = "done"
  /\ mode = "all"
  /\ Len(departamentos) = MaxRegions
  /\ successful_downloads = MaxRegions - 1
  /\ failed_downloads = 1
  /\ result = "success"

\* C9: the session is released once per batch: never before the batch ends,
\* never twice, and at the end of the batch a session that was opened is
\* closed.
C9_SessionReleasedOnce ==
  /\ quits <= 1
  /\ pc # "done" => quits = 0
  /\ pc = "done" => \/ driver = "None" /\ quits = 0
                    \/ driver = "closed" /\ quits = 1

C9_Witness ==
  /\ pc = "done"
  /\ mode = "specific"
  /\ departamentos = <<>>
  /\ departamentos_nombres = {<<"z">>}
  /\ driver = "closed"
  /\ quits = 1

\* C10: in a finished batch the pacing sleeps are exactly those between two
\* consecutive attempts: attempts and sleeps alternate, and the last event
\* is an attempt, not a sleep.
C10_SleepOnlyBetweenAttempts ==
  (pc = "done" /\ events # <<>>) =>
    /\ \A k \in 1..Len(events) :
         events[k][1] = (IF k % 2 = 1 THEN "attempt" ELSE "sleep")
    /\ events[Len(events)][1] = "attempt"

\* C11 (as stated): a batch ends without any attempt exactly when the
\* navigation failed, the catalog was empty or no requested name matched.
BatchEnded == mode \in {"all", "specific"} /\ pc \in {"finally", "done"}

C11_AbortOnlyThreeCauses ==
  BatchEnded =>
    (Attempts = <<>> <=>
       result \in {"navigation-failed", "no-departamentos", "no-match"})

\* C11 (amended): a batch ends without any attempt exactly when setup_driver
\* raised, the navigation failed, the catalog was empty or (specific mode) no
\* requested name equals a catalog name ignoring case; then nothing was
\* counted, no export was triggered and no file was touched; a batch that
\* attempted a region attempted all of them.
SomeNameMatches ==
  \E k \in 1..Len(todos_departamentos), x \in departamentos_nombres :
    /\ Len(x) = Len(todos_departamentos[k])
    /\ \A j \in 1..Len(x) : LowerChar(x[j]) = LowerChar(todos_departamentos[k][j])

C11_AbortCauses ==
  BatchEnded =>
    /\ Attempts = <<>> <=>
         result \in {"setup-error", "navigation-failed", "no-departamentos",
                     "no-match"}
    /\ Attempts = <<>> =>
         /\ departamentos = <<>>
         /\ successful_downloads = 0 /\ failed_downloads = 0
         /\ pending = {} /\ fsops = <<>> /\ dir = envDir
    /\ result = "no-match" <=>
         (mode = "specific" /\ todos_departamentos # <<>> /\ ~SomeNameMatches)
    /\ result = "no-departamentos" => todos_departamentos = <<>>
    /\ Attempts # <<>> => Len(Attempts) = Len(departamentos)

C11_Witness ==
  /\ pc = "done"
  /\ mode = "specific"
  /\ result = "no-match"
  /\ departamentos_nombres = {<<"z">>}
  /\ Len(todos_departamentos) >= 2
  /\ events = <<>>

\* C12: a batch that has started reaches its end (session released, pc =
\* "done"), whatever the site and the browser do; a watch cycle polls only
\* while less than timeout seconds have elapsed and never runs past timeout.
C12_BatchTerminates ==
  /\ (pc = "setup") ~> (pc = "done")
  /\ [](Watching => elapsed < timeout)
  /\ [](elapsed <= timeout)

C12_Witness ==
  /\ pc = "done"
  /\ Len(departamentos) = MaxRegions
  /\ i = MaxRegions
  /\ result = "timeout"
  /\ elapsed = DefaultTimeout
  /\ quits = 1

\* C13: when an attempt of a batch has succeeded, the file now stored under
\* the region's name holds what that region's own export wrote (tag i), not
\* the late download of an earlier region.
C13_FileBelongsToRegion ==
  (mode \in {"all", "specific"} /\ result = "success"
     /\ pc \in {"pace", "finally", "done"}) =>
    dir[departamentos[i] \o splitext(nuevo_archivo)[2]] = i

====
